---- MODULE Spec2Model ----
(***************************************************************************)
(* Model of src/main.py: one Streamlit script run ("interaction cycle") of *)
(* the wind dashboard.  The script is a straight line of sections; each    *)
(* section is one action and pc names the section about to run.            *)
(*                                                                         *)
(* Numbers.  Wind samples are integers (km/h).  A Python float produced by *)
(* a division is kept exactly, as the pair <<numerator, denominator>>, and *)
(* compared by cross-multiplication; None is the empty tuple <<>>.         *)
(* The slider value k * 0.05 is the pair <<k, 20>>.                        *)
(***************************************************************************)
EXTENDS Integers, Sequences, FiniteSets, TLC

VARIABLES
    pc,             \* section of the script about to run
    ville_nom,      \* line 26
    data,           \* lines 32-33: how the request to the Forecast Source ended
    fetches,        \* number of requests.get calls of this run (line 32)
    wind,           \* line 33
    wind_norm,      \* line 34
    threshold,      \* line 35
    spikes,         \* line 36
    state,          \* line 42/48: LIFState, in thousandths
    outputs,        \* line 45/49
    pred_window,    \* line 52
    preds,          \* lines 53-54
    val,            \* line 77
    alerte_active,  \* line 98
    receiver,       \* line 103
    pressed,        \* line 105: st.button's return value
    sends,          \* number of times the send branch (lines 106-115) was entered
    outbox,         \* messages taken to the SMTP server (lines 111-113)
    page            \* what the run has put on the page, in order

vars == <<pc, ville_nom, data, fetches, wind, wind_norm, threshold, spikes, state,
          outputs, pred_window, preds, val, alerte_active, receiver, pressed,
          sends, outbox, page>>

----------------------------------------------------------------------------
(* Bounds of the model *)

\* hourly responses repeat a pattern of this many samples
PatternLen == 3
\* samples range from just below the alert limit up to MaxWind
MaxWind == 31

(* Program constants *)

SeriesLen == 24
AlertLimit == 30
SliderDen == 20
SliderMin == 2
SliderMax == 20
WindowMin == 1
WindowMax == 5

villes == {"Abidjan", "Korhogo", "Yamoussoukro", "Bouake", "San Pedro"}

\* names bound by the import statements
Imports == {"st", "requests", "torch", "plt", "pd", "StringIO",
            "lif_step", "LIFState", "LIFParameters"}

----------------------------------------------------------------------------
(* Pure helpers *)

None == <<>>

RECURSIVE SumSeq(_)
SumSeq(s) == IF s = <<>> THEN 0 ELSE Head(s) + SumSeq(Tail(s))

\* Python's min / max of a non-empty list
Min(s) == CHOOSE x \in {s[i] : i \in 1..Len(s)} : \A j \in 1..Len(s) : x <= s[j]
Max(s) == CHOOSE x \in {s[i] : i \in 1..Len(s)} : \A j \in 1..Len(s) : x >= s[j]

\* Python slice s[a:b] with 0 <= a (0-based, end exclusive, clipped to the list)
Slice(s, a, b) ==
    LET hi == IF b < Len(s) THEN b ELSE Len(s)
    IN  IF a >= hi THEN <<>> ELSE [k \in 1..(hi - a) |-> s[a + k]]

\* p > q on exact fractions with positive denominators
FracGt(p, q) == p[1] * q[2] > q[1] * p[2]

----------------------------------------------------------------------------
(* The computations of the script *)

\* line 34 raises ZeroDivisionError: the list is non-empty and max(wind) = min(wind)
ZeroDivision(w) == Len(w) > 0 /\ Max(w) = Min(w)

\* faulty variant: divides by max(wind) instead of the range
NormalizedByMax(w) ==
    [i \in 1..Len(w) |-> <<w[i] - Min(w), Max(w)>>]

\* line 34: [(w - min(wind)) / (max(wind) - min(wind)) for w in wind]
Normalized(w) ==
    [i \in 1..Len(w) |-> <<w[i] - Min(w), Max(w) - Min(w)>>]

\* faulty variant: >= in place of >
SpikesGe(wn, T) ==
    [i \in 1..Len(wn) |-> IF ~FracGt(T, wn[i]) THEN 1 ELSE 0]

\* line 36: [1 if w > threshold else 0 for w in wind_norm]
Spikes(wn, T) ==
    [i \in 1..Len(wn) |-> IF FracGt(wn[i], T) THEN 1 ELSE 0]

\* line 42: LIFState(z=0, v=0, i=0)
ZeroState == [z |-> 0, v |-> 0, i |-> 0]

\* line 48: one lif_step with identity weights and the library's default
\* parameters (dt * tau_mem_inv = 1/10, dt * tau_syn_inv = 2/10, v_th = 1,
\* v_leak = v_reset = 0), potentials and currents in thousandths
LifStep(inp, st) ==
    LET i_new     == st.i + 1000 * inp + 1000 * st.z
        v_decayed == st.v + ((i_new - st.v) \div 10)
        i_decayed == i_new - ((2 * i_new) \div 10)
        z_new     == IF v_decayed > 1000 THEN 1 ELSE 0
    IN  [z |-> z_new, v |-> IF z_new = 1 THEN 0 ELSE v_decayed, i |-> i_decayed]

\* lines 45-49: the state after the first n spikes
RECURSIVE LifRun(_, _)
LifRun(sp, n) == IF n = 0 THEN ZeroState ELSE LifStep(sp[n], LifRun(sp, n - 1))

\* faulty variant: range(len(wind) - pred_window), one window short
PredsShort(w, win) ==
    LET n    == Len(w) - win
        m    == IF n > 0 THEN n ELSE 0
        pad  == IF SeriesLen - m > 0 THEN SeriesLen - m ELSE 0
    IN  [i \in 1..m |-> <<SumSeq(Slice(w, i - 1, i - 1 + win)), win>>]
        \o [k \in 1..pad |-> None]

\* lines 53-54: the sliding means, then None up to 24 entries
Preds(w, win) ==
    LET n    == Len(w) - win + 1
        m    == IF n > 0 THEN n ELSE 0
        pad  == IF SeriesLen - m > 0 THEN SeriesLen - m ELSE 0
    IN  [i \in 1..m |-> <<SumSeq(Slice(w, i - 1, i - 1 + win)), win>>]
        \o [k \in 1..pad |-> None]

\* faulty variant: reads the last entry that is not None
ValLastValid(p, sp) ==
    LET ok == {i \in 1..Len(p) : p[i] # None}
    IN  IF ok = {} THEN None ELSE p[CHOOSE i \in ok : \A j \in ok : j <= i]

\* line 77: preds[len(spikes)-1] if preds and len(preds) >= len(spikes) else None
\* (index -1 is Python's last element)
Val(p, sp) ==
    IF Len(p) > 0 /\ Len(p) >= Len(sp)
    THEN IF Len(sp) = 0 THEN p[Len(p)] ELSE p[Len(sp)]
    ELSE None

\* faulty variant: >= 30 in place of > 30
AlertConditionGe(armed, w) == armed /\ Max(w) >= AlertLimit

\* line 99: alerte_active and max(wind) > 30
AlertCondition(armed, w) == armed /\ Max(w) > AlertLimit

----------------------------------------------------------------------------
(* What the Forecast Source can answer *)

WindValues == (AlertLimit - 1)..MaxWind

\* an hourly list of n samples repeating pattern pat
Hourly(pat, n) == [i \in 1..n |-> pat[((i - 1) % PatternLen) + 1]]

ResponseLens == {0, 1, SeriesLen - 1, SeriesLen, SeriesLen + 1}

\* the request raises (network), the answer is not the expected JSON
\* (malformed), or data["hourly"]["wind_speed_10m"] is a list
Responses ==
    {[status |-> "ok", hourly |-> Hourly(pat, n)] :
        pat \in [1..PatternLen -> WindValues], n \in ResponseLens}
    \cup {[status |-> "network", hourly |-> <<>>],
          [status |-> "malformed", hourly |-> <<>>]}

\* what the user types or picks, from small sets
Receivers == {"destinataire@example.com", "autre@example.com"}
CityChoices == {v \in villes : v \in {"Abidjan", "Korhogo"}}

----------------------------------------------------------------------------
(* The script *)

Init ==
    /\ pc = "select"
    /\ ville_nom = ""
    /\ data = "none"
    /\ fetches = 0
    /\ wind = <<>>
    /\ wind_norm = <<>>
    /\ threshold = None
    /\ spikes = <<>>
    /\ state = ZeroState
    /\ outputs = <<>>
    /\ pred_window = 0
    /\ preds = <<>>
    /\ val = None
    /\ alerte_active = FALSE
    /\ receiver = ""
    /\ pressed = FALSE
    /\ sends = 0
    /\ outbox = <<>>
    /\ page = <<>>

\* lines 15-27: title and city selectbox
SelectCity ==
    /\ pc = "select"
    /\ \E v \in CityChoices : ville_nom' = v
    /\ page' = Append(page, "title")
    /\ pc' = "fetch"
    /\ UNCHANGED <<data, fetches, wind, wind_norm, threshold, spikes, state, outputs,
                   pred_window, preds, val, alerte_active, receiver, pressed, sends,
                   outbox>>

\* faulty variant: a failed request is not noticed and the script goes on
FetchIgnoreError ==
    /\ pc = "fetch"
    /\ \E r \in Responses :
        /\ data' = r.status
        /\ fetches' = fetches + 1
        /\ wind' = Slice(r.hourly, 0, SeriesLen)
        /\ pc' = "normalize"
        /\ page' = page
    /\ UNCHANGED <<ville_nom, wind_norm, threshold, spikes, state, outputs,
                   pred_window, preds, val, alerte_active, receiver, pressed, sends,
                   outbox>>

\* lines 30-33 and, when the request or the lookup raises, 37-39
Fetch ==
    /\ pc = "fetch"
    /\ \E r \in Responses :
        /\ data' = r.status
        /\ fetches' = fetches + 1
        /\ IF r.status = "ok"
           THEN /\ wind' = Slice(r.hourly, 0, SeriesLen)
                /\ pc' = "normalize"
                /\ page' = page
           ELSE /\ wind' = wind
                /\ page' = Append(page, "error_meteo")
                /\ pc' = "stopped"
    /\ UNCHANGED <<ville_nom, wind_norm, threshold, spikes, state, outputs,
                   pred_window, preds, val, alerte_active, receiver, pressed, sends,
                   outbox>>

\* faulty variant: the division sits outside the try block
NormalizeUncaught ==
    /\ pc = "normalize"
    /\ IF ZeroDivision(wind)
       THEN /\ wind_norm' = wind_norm
            /\ page' = Append(page, "exception")
            /\ pc' = "crashed"
       ELSE /\ wind_norm' = Normalized(wind)
            /\ page' = page
            /\ pc' = "encode"
    /\ UNCHANGED <<ville_nom, data, fetches, wind, threshold, spikes, state, outputs,
                   pred_window, preds, val, alerte_active, receiver, pressed, sends,
                   outbox>>

\* line 34 and, when the division raises, 37-39
Normalize ==
    /\ pc = "normalize"
    /\ IF ZeroDivision(wind)
       THEN /\ wind_norm' = wind_norm
            /\ page' = Append(page, "error_meteo")
            /\ pc' = "stopped"
       ELSE /\ wind_norm' = Normalized(wind)
            /\ page' = page
            /\ pc' = "encode"
    /\ UNCHANGED <<ville_nom, data, fetches, wind, threshold, spikes, state, outputs,
                   pred_window, preds, val, alerte_active, receiver, pressed, sends,
                   outbox>>

\* lines 35-36: threshold slider and spike train
Encode ==
    /\ pc = "encode"
    /\ \E k \in SliderMin..SliderMax :
        /\ threshold' = <<k, SliderDen>>
        /\ spikes' = Spikes(wind_norm, <<k, SliderDen>>)
    /\ pc' = "simulate"
    /\ UNCHANGED <<ville_nom, data, fetches, wind, wind_norm, state, outputs,
                   pred_window, preds, val, alerte_active, receiver, pressed, sends,
                   outbox, page>>

\* lines 42-49: the LIF cell over the spike train
Simulate ==
    /\ pc = "simulate"
    /\ state' = LifRun(spikes, Len(spikes))
    /\ outputs' = [n \in 1..Len(spikes) |-> LifRun(spikes, n).z]
    /\ pc' = "forecast"
    /\ UNCHANGED <<ville_nom, data, fetches, wind, wind_norm, threshold, spikes,
                   pred_window, preds, val, alerte_active, receiver, pressed, sends,
                   outbox, page>>

\* lines 52-54: window slider and sliding means
Forecast ==
    /\ pc = "forecast"
    /\ \E win \in WindowMin..WindowMax :
        /\ pred_window' = win
        /\ preds' = Preds(wind, win)
    /\ pc' = "chart"
    /\ UNCHANGED <<ville_nom, data, fetches, wind, wind_norm, threshold, spikes, state,
                   outputs, val, alerte_active, receiver, pressed, sends, outbox, page>>

\* lines 57-69
Chart ==
    /\ pc = "chart"
    /\ page' = Append(page, "chart")
    /\ pc' = "summary"
    /\ UNCHANGED <<ville_nom, data, fetches, wind, wind_norm, threshold, spikes, state,
                   outputs, pred_window, preds, val, alerte_active, receiver, pressed,
                   sends, outbox>>

\* lines 72-82: max(outputs) on line 74 raises on an empty list, uncaught
Summary ==
    /\ pc = "summary"
    /\ IF Len(outputs) = 0
       THEN /\ page' = Append(page, "exception")
            /\ val' = val
            /\ pc' = "crashed"
       ELSE /\ val' = Val(preds, spikes)
            /\ page' = page \o <<"summary",
                   IF Val(preds, spikes) # None THEN "pred_value" ELSE "pred_warning">>
            /\ pc' = "export"
    /\ UNCHANGED <<ville_nom, data, fetches, wind, wind_norm, threshold, spikes, state,
                   outputs, pred_window, preds, alerte_active, receiver, pressed,
                   sends, outbox>>

\* lines 87-96: pd.DataFrame raises on columns of unequal length, uncaught
Export ==
    /\ pc = "export"
    /\ IF /\ Len(wind) = SeriesLen
          /\ Len(wind_norm) = SeriesLen
          /\ Len(spikes) = SeriesLen
          /\ Len(outputs) = SeriesLen
          /\ Len(preds) = SeriesLen
       THEN /\ page' = Append(page, "csv")
            /\ pc' = "alert"
       ELSE /\ page' = Append(page, "exception")
            /\ pc' = "crashed"
    /\ UNCHANGED <<ville_nom, data, fetches, wind, wind_norm, threshold, spikes, state,
                   outputs, pred_window, preds, val, alerte_active, receiver, pressed,
                   sends, outbox>>

\* lines 98-99: checkbox and alert condition
AlertCheck ==
    /\ pc = "alert"
    /\ \E armed \in BOOLEAN :
        /\ alerte_active' = armed
        /\ pc' = IF AlertCondition(armed, wind) THEN "form" ELSE "done"
    /\ UNCHANGED <<ville_nom, data, fetches, wind, wind_norm, threshold, spikes, state,
                   outputs, pred_window, preds, val, receiver, pressed, sends, outbox,
                   page>>

\* lines 101-105: recipient input and send button
AlertForm ==
    /\ pc = "form"
    /\ \E r \in Receivers : receiver' = r
    /\ \E b \in BOOLEAN :
        /\ pressed' = b
        /\ pc' = IF b THEN "send" ELSE "done"
    /\ page' = Append(page, "alert_form")
    /\ UNCHANGED <<ville_nom, data, fetches, wind, wind_norm, threshold, spikes, state,
                   outputs, pred_window, preds, val, alerte_active, sends, outbox>>

\* line 106 formats the message
Message == [to |-> receiver, ville |-> ville_nom, vent |-> Max(wind)]

\* faulty variant: no except clause around the send
SendUncaught ==
    /\ pc = "send"
    /\ sends' = sends + 1
    /\ IF {"MIMEText", "smtplib"} \subseteq Imports
       THEN \E delivered \in BOOLEAN :
            /\ outbox' = Append(outbox, Message)
            /\ page' = Append(page, IF delivered THEN "success" ELSE "exception")
            /\ pc' = IF delivered THEN "done" ELSE "crashed"
       ELSE /\ outbox' = outbox
            /\ page' = Append(page, "exception")
            /\ pc' = "crashed"
    /\ UNCHANGED <<ville_nom, data, fetches, wind, wind_norm, threshold, spikes, state,
                   outputs, pred_window, preds, val, alerte_active, receiver, pressed>>

\* lines 106-117: MIMEText and smtplib are looked up when the branch runs; a
\* name no import binds raises NameError before anything is sent, and line
\* 116 catches it like a failure of the server (login or delivery refused)
Send ==
    /\ pc = "send"
    /\ sends' = sends + 1
    /\ IF {"MIMEText", "smtplib"} \subseteq Imports
       THEN \E delivered \in BOOLEAN :
            /\ outbox' = Append(outbox, Message)
            /\ page' = Append(page, IF delivered THEN "success" ELSE "error_envoi")
       ELSE /\ outbox' = outbox
            /\ page' = Append(page, "error_envoi")
    /\ pc' = "done"
    /\ UNCHANGED <<ville_nom, data, fetches, wind, wind_norm, threshold, spikes, state,
                   outputs, pred_window, preds, val, alerte_active, receiver, pressed>>

\* any widget change runs the script again from the top, nothing kept
Rerun ==
    /\ pc \in {"done", "stopped", "crashed"}
    /\ pc' = "select"
    /\ ville_nom' = ""
    /\ data' = "none"
    /\ fetches' = 0
    /\ wind' = <<>>
    /\ wind_norm' = <<>>
    /\ threshold' = None
    /\ spikes' = <<>>
    /\ state' = ZeroState
    /\ outputs' = <<>>
    /\ pred_window' = 0
    /\ preds' = <<>>
    /\ val' = None
    /\ alerte_active' = FALSE
    /\ receiver' = ""
    /\ pressed' = FALSE
    /\ sends' = 0
    /\ outbox' = <<>>
    /\ page' = <<>>

Next ==
    \/ SelectCity
    \/ Fetch
    \/ Normalize
    \/ Encode
    \/ Simulate
    \/ Forecast
    \/ Chart
    \/ Summary
    \/ Export
    \/ AlertCheck
    \/ AlertForm
    \/ Send
    \/ Rerun

Spec == Init /\ [][Next]_vars

----------------------------------------------------------------------------
(* Properties *)

Shown(e) == \E k \in 1..Len(page) : page[k] = e

AfterSend      == {"done"}
AfterAlert     == {"form", "send", "done"}
AfterExport    == AfterAlert \cup {"alert"}
AfterSummary   == AfterExport \cup {"export"}
AfterForecast  == AfterSummary \cup {"chart", "summary"}
AfterEncode    == AfterForecast \cup {"simulate", "forecast"}
AfterNormalize == AfterEncode \cup {"encode"}

\* a run that got 24 samples and has normalised them
FullSeries == data = "ok" /\ Len(wind) = SeriesLen

\* C1: for a 24-sample series with max # min, every normalised element n/d has
\* 0 <= n/d <= 1, a sample equal to the maximum maps to 1 and a sample equal
\* to the minimum maps to 0.
C1_NormalizedUnitRange ==
    (FullSeries /\ pc \in AfterNormalize) =>
        LET hi == Max(wind)
            lo == Min(wind)
        IN  /\ Len(wind_norm) = SeriesLen
            /\ \A i \in 1..SeriesLen :
                /\ wind_norm[i][2] > 0
                /\ 0 <= wind_norm[i][1]
                /\ wind_norm[i][1] <= wind_norm[i][2]
                /\ wind[i] = hi => wind_norm[i][1] = wind_norm[i][2]
                /\ wind[i] = lo => wind_norm[i][1] = 0

\* a normalised 24-sample series holding 0, 1 and a value strictly between
C1_Witness ==
    /\ FullSeries
    /\ pc = "encode"
    /\ Len(wind_norm) = SeriesLen
    /\ \E i, j, k \in 1..SeriesLen :
        /\ wind_norm[i][1] = 0
        /\ wind_norm[j][1] = wind_norm[j][2]
        /\ 0 < wind_norm[k][1] /\ wind_norm[k][1] < wind_norm[k][2]

\* C2: with the threshold T = k/20 in [0.1, 1.0], spike[i] is 1 exactly when
\* normalised[i] > T, strictly, and 0 otherwise; each spike is decided by its
\* own sample alone, so a sample equal to T gives no spike.
C2_SpikeIffStrictlyAbove ==
    /\ pc \in AfterEncode => threshold # None
    /\ threshold # None =>
        /\ threshold[2] = SliderDen
        /\ SliderMin <= threshold[1] /\ threshold[1] <= SliderMax
        /\ Len(spikes) = Len(wind_norm)
        /\ \A i \in 1..Len(wind_norm) :
            /\ spikes[i] \in {0, 1}
            /\ spikes[i] = 1 <=>
                   wind_norm[i][1] * threshold[2] > threshold[1] * wind_norm[i][2]

\* a sample exactly on the threshold without a spike, beside one above it with a spike
C2_Witness ==
    /\ pc = "simulate"
    /\ \E i, j \in 1..Len(wind_norm) :
        /\ wind_norm[i][1] * threshold[2] = threshold[1] * wind_norm[i][2]
        /\ spikes[i] = 0
        /\ spikes[j] = 1

RECURSIVE C3_WindowSum(_, _)
\* wind[i] + ... + wind[i+k-1], 1-based
C3_WindowSum(i, k) == IF k = 0 THEN 0 ELSE wind[i + k - 1] + C3_WindowSum(i, k - 1)

\* C3: for a 24-sample series and window w in 1..5 the forecast has 24
\* entries; entry i (0-based) is the mean of wind[i..i+w-1] for i <= 24-w
\* (the sample itself when w = 1) and None for i > 24-w, so exactly 24-w+1
\* entries are valid.
C3_ForecastShape ==
    (FullSeries /\ pc \in AfterForecast) =>
        /\ pred_window \in WindowMin..WindowMax
        /\ Len(preds) = SeriesLen
        /\ \A i \in 0..(SeriesLen - 1) :
            IF i <= SeriesLen - pred_window
            THEN /\ preds[i + 1] # None
                 /\ preds[i + 1][2] > 0
                 /\ preds[i + 1][1] * pred_window
                        = C3_WindowSum(i + 1, pred_window) * preds[i + 1][2]
                 /\ pred_window = 1 => preds[i + 1][1] = wind[i + 1] * preds[i + 1][2]
            ELSE preds[i + 1] = None
        /\ Cardinality({i \in 1..SeriesLen : preds[i] # None})
               = SeriesLen - pred_window + 1

\* window 3 over 24 samples: 22 means, the first not a whole number, then two None
C3_Witness ==
    /\ FullSeries
    /\ pc = "chart"
    /\ pred_window = 3
    /\ preds[1] # None /\ preds[1][1] % 3 # 0
    /\ preds[22] # None
    /\ preds[23] = None /\ preds[24] = None

\* C4: the alert path (lines 100-117) is entered exactly when the checkbox is
\* ticked and some raw sample is strictly above 30; the threshold and the
\* window play no part.
C4_AlertIffArmedAndAbove30 ==
    LET above == \E i \in 1..Len(wind) : wind[i] > 30
    IN  /\ pc \in {"form", "send"} => (alerte_active /\ above)
        /\ Shown("alert_form") => (alerte_active /\ above)
        /\ pc = "done" => (Shown("alert_form") <=> (alerte_active /\ above))

\* an armed run whose maximum is above 30 and that has shown the alert form
C4_Witness ==
    /\ pc = "done"
    /\ alerte_active
    /\ Shown("alert_form")
    /\ \E i \in 1..Len(wind) : wind[i] = 31

\* C5: when the Forecast Source answers with fewer than 24 samples the run
\* stops with the error shown, before the simulation, the chart, the summary
\* and the CSV export.
C5_ShortSeriesAborts ==
    (data = "ok" /\ Len(wind) < SeriesLen /\ pc # "normalize") =>
        /\ pc = "stopped"
        /\ Shown("error_meteo")
        /\ outputs = <<>>
        /\ ~Shown("chart") /\ ~Shown("summary") /\ ~Shown("csv")

\* C6: a failed fetch (network failure or malformed answer) stops the run
\* with the error shown and nothing else computed or rendered; the request
\* is made once per run.
C6_FetchFailureAborts ==
    /\ fetches <= 1
    /\ pc \notin {"select", "fetch"} => fetches = 1
    /\ data \in {"network", "malformed"} =>
        /\ pc = "stopped"
        /\ page = <<"title", "error_meteo">>
        /\ wind_norm = <<>> /\ spikes = <<>> /\ outputs = <<>> /\ preds = <<>>
        /\ state = ZeroState
        /\ val = None
        /\ ~alerte_active /\ sends = 0 /\ outbox = <<>>

\* a run stopped by a network failure
C6_Witness ==
    /\ data = "network"
    /\ pc = "stopped"
    /\ Shown("error_meteo")

\* C7: with 24 identical samples the run ends in a defined outcome: an
\* all-zero normalised series or a reported error, never an uncaught
\* exception.
C7_ConstantSeriesHandled ==
    (FullSeries /\ (\A i \in 1..SeriesLen : wind[i] = wind[1]) /\ pc # "normalize") =>
        /\ pc # "crashed"
        /\ ~Shown("exception")
        /\ \/ pc = "stopped" /\ Shown("error_meteo")
           \/ /\ Len(wind_norm) = SeriesLen
              /\ \A i \in 1..SeriesLen : wind_norm[i][1] = 0 /\ wind_norm[i][2] > 0

\* 24 samples of 30 km/h: stopped with the error on the page
C7_Witness ==
    /\ FullSeries
    /\ \A i \in 1..SeriesLen : wind[i] = 30
    /\ pc = "stopped"
    /\ page = <<"title", "error_meteo">>

\* C8: in a finished run with the alert armed and a sample above 30, one
\* request carrying the formatted message and the recipient has gone to the
\* Notification collaborator exactly when the send button was pressed.
C8_RequestIffButton ==
    (pc = "done" /\ alerte_active /\ Max(wind) > AlertLimit) =>
        (pressed <=> outbox = <<Message>>)

\* C9: a failure of the send is caught and shown, the run ends normally,
\* chart, summary and CSV are on the page before the outcome of the send,
\* and the send is tried at most once per run.
C9_SendFailureNonFatal ==
    /\ sends <= 1
    /\ pc = "send" =>
        (Shown("chart") /\ Shown("summary") /\ Shown("csv") /\ sends = 0)
    /\ sends = 1 =>
        /\ pc = "done"
        /\ ~Shown("exception")
        /\ page[Len(page)] \in {"success", "error_envoi"}
        /\ \E a, b, c \in 1..(Len(page) - 1) :
               page[a] = "chart" /\ page[b] = "summary" /\ page[c] = "csv"

\* the button was pressed, the send failed, the error is shown and the run is over
C9_Witness ==
    /\ pressed
    /\ sends = 1
    /\ pc = "done"
    /\ page[Len(page)] = "error_envoi"

\* C10: with 24 samples the "next hour" value is the last forecast entry: a
\* number exactly when the window is 1; for windows 2..5 it is None, the
\* warning is rendered, and the run goes on to the CSV export and the alert.
C10_NextHourOnlyWindowOne ==
    (FullSeries /\ (pc \in AfterSummary \/ Shown("summary"))) =>
        /\ pc \in AfterSummary
        /\ val = preds[SeriesLen]
        /\ pred_window = 1 <=> val # None
        /\ pred_window = 1 =>
               (val = <<wind[SeriesLen], 1>> /\ Shown("pred_value") /\ ~Shown("pred_warning"))
        /\ pred_window \in 2..WindowMax =>
               (Shown("pred_warning") /\ ~Shown("pred_value"))
        /\ pc \in AfterExport => Shown("csv")

\* the default window 3: warning rendered, CSV offered, alert evaluated
C10_Witness ==
    /\ FullSeries
    /\ pred_window = 3
    /\ val = None
    /\ Shown("pred_warning")
    /\ Shown("csv")
    /\ pc = "done"

====
